---- MODULE Spec2Model ----
(***************************************************************************)
(* A model of the Minesweeper class of mines.py: an unbounded field whose  *)
(* mines are generated lazily while the player uncovers cells.             *)
(*                                                                         *)
(* Coordinates are pairs <<x, y>> of integers.  The field itself is not    *)
(* bounded: only the coordinates the player passes to the public methods   *)
(* are drawn from a small window, and the number of public calls is        *)
(* capped.  Cells outside the window are reached through adjacent(),       *)
(* chord() and auto_uncover() exactly as in the code.                      *)
(*                                                                         *)
(* random() returns a float in [0, 1).  It is modelled as r / DensityScale *)
(* for r in 0 .. DensityScale-1 and the density as d / DensityScale for    *)
(* d in 0 .. DensityScale, so that `random() < self.density` is r < d:     *)
(* never true at density 0, always true at density 1, either otherwise.    *)
(*                                                                         *)
(* Python iterates a set in an unspecified order.  chord() and             *)
(* auto_uncover() both walk `adj` with a for loop; the order is an input   *)
(* of each public call, drawn from Orders, a family of rotations and       *)
(* reversals of the eight neighbours, and followed by every for loop the   *)
(* call runs.  The draws of random() at a density strictly between 0 and 1 *)
(* are enumerated up to MaxMines mines on the field.                       *)
(***************************************************************************)
EXTENDS Integers, FiniteSets, Sequences, TLC

\* ---- bounds of the model ----
MaxX == 2
MaxY == 0
MaxOps == 3
MaxMines == 1
MaxOrder == 1
DensityScale == 2
\* Minesweeper.AUTO_LIMIT is 1 << 16 in mines.py; the model scales it down.
AUTO_LIMIT == 2

\* ---- Tile values (class Tile) ----
ZERO == 0
THREE == 3
EIGHT == 8
PLAIN == 9
MINE == 10
DETONATED == 11
FLAG_RIGHT == 12
FLAG_WRONG == 13

VARIABLES
    density,          \* self.density, as a numerator over DensityScale
    mines,            \* self.mines
    uncovered,        \* self.uncovered
    flags,            \* self.flags
    detonated_count,  \* self.detonated_count
    pc,               \* "idle", or the method whose loop is running: "chord", "auto"
    op,               \* the public call in progress, or the last one made
    prev,             \* the public call made before op
    ret,              \* return value of the last public call that returned
    nops,             \* number of public calls made so far
    order,            \* the iteration order of the for loops of the call in progress
    chordTodo,        \* chord: cells of adj the for loop has not visited yet, in order
    queue,            \* auto_uncover: queue
    cache,            \* auto_uncover: cache
    num_uncovered,    \* auto_uncover: num_uncovered
    iters,            \* auto_uncover: iterations of the while loop made so far
    uc,               \* the uncover() invocation made by the last step, if any
    act,              \* the operation or loop iteration the last step carried out
    before,           \* mines, uncovered, flags, detonated_count before the last step
    drawn,            \* the cells random() was drawn for before the last step
    added             \* cells the current/last public call added to uncovered

vars == <<density, mines, uncovered, flags, detonated_count, pc, op, prev, ret, nops,
          order, chordTodo, queue, cache, num_uncovered, iters, uc, act, before,
          drawn, added>>

game == [mines |-> mines, uncovered |-> uncovered, flags |-> flags,
         detonated_count |-> detonated_count]

\* what every step records about itself and about the draws made before it:
\* all the cells drawn for, and those of them whose draw left them safe
Record(a) ==
    /\ act' = a
    /\ before' = game
    /\ drawn' = [cells |-> drawn.cells \cup uc.drawn,
                 safe |-> drawn.safe \cup (uc.drawn \ mines)]

Xs == 0 .. MaxX
Ys == 0 .. MaxY
Densities == 0 .. DensityScale
Randoms == 0 .. (DensityScale - 1)

NoOp == [name |-> "none", x |-> 0, y |-> 0, auto |-> FALSE]
NoCall == [called |-> FALSE, cell |-> <<0, 0>>, ret |-> FALSE, drawn |-> {}]

\* Minesweeper.adjacent
adjacent(x, y) == ({x - 1, x, x + 1} \X {y - 1, y, y + 1}) \ {<<x, y>>}

adj(c) == adjacent(c[1], c[2])

\* the eight neighbour offsets, as product([x-1, x, x+1], [y-1, y, y+1]) lists them
Offsets == << <<-1, -1>>, <<-1, 0>>, <<-1, 1>>, <<0, -1>>,
              <<0, 1>>, <<1, -1>>, <<1, 0>>, <<1, 1>> >>

\* the iteration orders of a set of neighbours that the model enumerates
Orders == 0 .. MaxOrder

\* position in Offsets of the i-th neighbour visited under order o: an even o
\* rotates Offsets by o/2, an odd o rotates the reversed Offsets by (o-1)/2
OrderIndex(o, i) ==
    IF o % 2 = 0
    THEN ((i - 1 + (o \div 2)) % 8) + 1
    ELSE 8 - ((i - 1 + (o \div 2)) % 8)

\* a for loop that stops one neighbour short
Iterate_Short(x, y, S, o) ==
    SelectSeq([i \in 1 .. 7 |-> <<x + Offsets[OrderIndex(o, i)][1],
                                  y + Offsets[OrderIndex(o, i)][2]>>],
              LAMBDA c : c \in S)

\* `for (u, v) in adj`: the cells of S, a set of neighbours of (x, y), in order o
Iterate(x, y, S, o) ==
    SelectSeq([i \in 1 .. 8 |-> <<x + Offsets[OrderIndex(o, i)][1],
                                  y + Offsets[OrderIndex(o, i)][2]>>],
              LAMBDA c : c \in S)

\* Minesweeper.get_tile, on given sets
TileOf(m, u, f, x, y) ==
    IF <<x, y>> \in m
    THEN (IF <<x, y>> \in u THEN DETONATED
          ELSE IF <<x, y>> \in f THEN FLAG_RIGHT
          ELSE MINE)
    ELSE (IF <<x, y>> \in u THEN Cardinality(adjacent(x, y) \cap m)
          ELSE IF <<x, y>> \in f THEN FLAG_WRONG
          ELSE PLAIN)

get_tile(x, y) == TileOf(mines, uncovered, flags, x, y)

\* uncover that forgets that a flag precludes uncovering
UncoverLegal_IgnoreFlags(x, y) == <<x, y>> \notin uncovered

\* uncover, line 63: the move is legal
UncoverLegal(x, y) == <<x, y>> \notin uncovered /\ <<x, y>> \notin flags

\* uncover that generates mines from the first call on
Generating_Always == TRUE

\* uncover, line 65: mines are only generated after the first cell is uncovered
Generating == uncovered # {}

\* uncover that draws for a cell whatever is uncovered around it
NoUncoveredNeighbour_Skipped(u, v) == TRUE

\* uncover, line 67: (u, v) has no uncovered neighbour
NoUncoveredNeighbour(u, v) == adjacent(u, v) \cap uncovered = {}

\* uncover that draws for every covered cell of the neighbourhood
Candidates_AllCovered(x, y) ==
    IF Generating
    THEN (adjacent(x, y) \cup {<<x, y>>}) \ uncovered
    ELSE {}

\* uncover that, on the first call, skips the cell itself but still draws for
\* its neighbours
Candidates_FirstNeighbours(x, y) ==
    IF Generating
    THEN {c \in (adjacent(x, y) \cup {<<x, y>>}) \ uncovered :
              NoUncoveredNeighbour(c[1], c[2])}
    ELSE adjacent(x, y)

\* uncover, lines 65-67: the cells for which random() is drawn
Candidates(x, y) ==
    IF Generating
    THEN {c \in (adjacent(x, y) \cup {<<x, y>>}) \ uncovered :
              NoUncoveredNeighbour(c[1], c[2])}
    ELSE {}

\* uncover that compares the draw with <= instead of <
Generated_Inclusive(cands, draw) == {c \in cands : draw[c] <= density}

\* uncover, lines 68-69: the cells whose draw is below the density
Generated(cands, draw) == {c \in cands : draw[c] < density}

\* uncover that assigns the generated mines instead of adding them
NewMines_Assigned(x, y, draw) == Generated(Candidates(x, y), draw)

\* uncover, line 69: self.mines after the loop of uncover(x, y)
NewMines(x, y, draw) == mines \cup Generated(Candidates(x, y), draw)

\* uncover that tests for a mine before it generates the mines of the call
uncover_StaleCount(x, y, draw) ==
    IF UncoverLegal(x, y)
    THEN /\ mines' = NewMines(x, y, draw)
         /\ uncovered' = uncovered \cup {<<x, y>>}
         /\ detonated_count' = IF <<x, y>> \in mines
                               THEN detonated_count + 1
                               ELSE detonated_count
         /\ uc' = [called |-> TRUE, cell |-> <<x, y>>, ret |-> TRUE,
                   drawn |-> Candidates(x, y)]
    ELSE /\ UNCHANGED <<mines, uncovered, detonated_count>>
         /\ uc' = [called |-> TRUE, cell |-> <<x, y>>, ret |-> FALSE,
                   drawn |-> {}]

\* Minesweeper.uncover, as one step; draw gives random() for each candidate
uncover(x, y, draw) ==
    IF UncoverLegal(x, y)
    THEN /\ mines' = NewMines(x, y, draw)
         /\ uncovered' = uncovered \cup {<<x, y>>}
         /\ detonated_count' = IF <<x, y>> \in mines'
                               THEN detonated_count + 1
                               ELSE detonated_count
         /\ uc' = [called |-> TRUE, cell |-> <<x, y>>, ret |-> TRUE,
                   drawn |-> Candidates(x, y)]
    ELSE /\ UNCHANGED <<mines, uncovered, detonated_count>>
         /\ uc' = [called |-> TRUE, cell |-> <<x, y>>, ret |-> FALSE,
                   drawn |-> {}]

\* the values of random() enumerated for the candidates of uncover(x, y)
Draws(x, y) ==
    {draw \in [Candidates(x, y) -> Randoms] :
        \/ density \in {0, DensityScale}
        \/ Cardinality(mines \cup Generated(Candidates(x, y), draw)) <= MaxMines}

\* flag that also accepts an uncovered cell
FlagLegal_Always(x, y) == TRUE

\* flag, line 113
FlagLegal(x, y) == <<x, y>> \notin uncovered

\* flag that sets the flag and never removes it
Toggled_AddOnly(x, y) == flags \cup {<<x, y>>}

\* flag, lines 114-117
Toggled(x, y) ==
    IF <<x, y>> \notin flags THEN flags \cup {<<x, y>>} ELSE flags \ {<<x, y>>}

\* chord that does not compare the flags with the mines
ChordLegal_NoAccounting(x, y) ==
    /\ <<x, y>> \in uncovered
    /\ <<x, y>> \notin mines

\* chord, lines 129-134
ChordLegal(x, y) ==
    /\ <<x, y>> \in uncovered
    /\ <<x, y>> \notin mines
    /\ Cardinality(adjacent(x, y) \cap flags)
         + Cardinality(adjacent(x, y) \cap uncovered \cap mines)
       = Cardinality(adjacent(x, y) \cap mines)

Init ==
    /\ density \in Densities
    /\ mines = {}
    /\ uncovered = {}
    /\ flags = {}
    /\ detonated_count = 0
    /\ pc = "idle"
    /\ op = NoOp
    /\ prev = NoOp
    /\ ret = FALSE
    /\ nops = 0
    /\ order = 0
    /\ chordTodo = <<>>
    /\ queue = <<>>
    /\ cache = {}
    /\ num_uncovered = 0
    /\ iters = 0
    /\ uc = NoCall
    /\ act = "init"
    /\ before = game
    /\ drawn = [cells |-> {}, safe |-> {}]
    /\ added = {}

CanCall == pc = "idle" /\ nops < MaxOps

\* a public call to uncover(x, y)
Uncover(x, y) ==
    /\ CanCall
    /\ Record("Uncover")
    /\ \E draw \in Draws(x, y) : uncover(x, y, draw)
    /\ op' = [name |-> "uncover", x |-> x, y |-> y, auto |-> FALSE]
    /\ prev' = op
    /\ ret' = uc'.ret
    /\ nops' = nops + 1
    /\ added' = uncovered' \ uncovered
    /\ UNCHANGED <<density, flags, pc, order, chordTodo, queue, cache, num_uncovered,
                   iters>>

\* a public call to flag(x, y)
Flag(x, y) ==
    /\ CanCall
    /\ Record("Flag")
    /\ IF FlagLegal(x, y)
       THEN flags' = Toggled(x, y) /\ ret' = TRUE
       ELSE flags' = flags /\ ret' = FALSE
    /\ op' = [name |-> "flag", x |-> x, y |-> y, auto |-> FALSE]
    /\ prev' = op
    /\ nops' = nops + 1
    /\ uc' = NoCall
    /\ added' = {}
    /\ UNCHANGED <<density, mines, uncovered, detonated_count, pc, order, chordTodo,
                   queue, cache, num_uncovered, iters>>

\* a public call to chord(x, y, auto): lines 127-134, and the return of line 142
Chord(x, y, auto, o) ==
    /\ CanCall
    /\ Record("Chord")
    /\ op' = [name |-> "chord", x |-> x, y |-> y, auto |-> auto]
    /\ prev' = op
    /\ nops' = nops + 1
    /\ uc' = NoCall
    /\ added' = {}
    /\ IF ChordLegal(x, y)
       THEN /\ pc' = "chord"
            /\ order' = o
            /\ chordTodo' = Iterate(x, y, adjacent(x, y), o)
            /\ ret' = FALSE
       ELSE /\ pc' = "idle"
            /\ order' = order
            /\ chordTodo' = chordTodo
            /\ ret' = FALSE
    /\ UNCHANGED <<density, mines, uncovered, flags, detonated_count,
                   queue, cache, num_uncovered, iters>>

\* chord, lines 135-139 with auto false: one iteration of the for loop
ChordUncover ==
    /\ pc = "chord"
    /\ Record("ChordUncover")
    /\ ~op.auto
    /\ chordTodo # <<>>
    /\ chordTodo' = Tail(chordTodo)
    /\ \E draw \in Draws(Head(chordTodo)[1], Head(chordTodo)[2]) :
         uncover(Head(chordTodo)[1], Head(chordTodo)[2], draw)
    /\ added' = added \cup (uncovered' \ uncovered)
    /\ UNCHANGED <<density, flags, pc, op, prev, ret, nops, order, queue, cache,
                   num_uncovered, iters>>

\* chord, lines 135-137 with auto true: the for loop calls auto_uncover(u, v);
\* auto_uncover, lines 87-89
ChordAuto ==
    /\ pc = "chord"
    /\ Record("ChordAuto")
    /\ op.auto
    /\ chordTodo # <<>>
    /\ chordTodo' = Tail(chordTodo)
    /\ queue' = <<Head(chordTodo)>>
    /\ cache' = {Head(chordTodo)}
    /\ num_uncovered' = 0
    /\ iters' = 0
    /\ pc' = "auto"
    /\ uc' = NoCall
    /\ UNCHANGED <<density, mines, uncovered, flags, detonated_count, op, prev, ret,
                   nops, order, added>>

\* chord, line 141: the for loop is over
ChordReturn ==
    /\ pc = "chord"
    /\ Record("ChordReturn")
    /\ chordTodo = <<>>
    /\ pc' = "idle"
    /\ ret' = TRUE
    /\ order' = 0
    /\ uc' = NoCall
    /\ UNCHANGED <<density, mines, uncovered, flags, detonated_count, op, prev, nops,
                   chordTodo, queue, cache, num_uncovered, iters, added>>

\* a public call to auto_uncover(x, y): lines 87-89
AutoUncover(x, y, o) ==
    /\ CanCall
    /\ Record("AutoUncover")
    /\ op' = [name |-> "auto_uncover", x |-> x, y |-> y, auto |-> FALSE]
    /\ prev' = op
    /\ nops' = nops + 1
    /\ ret' = FALSE
    /\ pc' = "auto"
    /\ order' = o
    /\ queue' = << <<x, y>> >>
    /\ cache' = {<<x, y>>}
    /\ num_uncovered' = 0
    /\ iters' = 0
    /\ uc' = NoCall
    /\ added' = {}
    /\ UNCHANGED <<density, mines, uncovered, flags, detonated_count, chordTodo>>

\* auto_uncover that goes on from any cell that is no mine, whatever is around
IsZeroCell_SelfOnly(c, ok, m) == ok /\ c \notin m

\* auto_uncover, line 95, evaluated after the call of uncover: the cell was
\* uncovered by this call, is no mine and has no mine around it
IsZeroCell(c, ok, m) == ok /\ c \notin m /\ adj(c) \cap m = {}

\* auto_uncover, lines 98-102: the neighbours to queue
ToQueue(c, u) == {n \in adj(c) : n \notin cache /\ n \notin u /\ n \notin flags}

\* auto_uncover whose while loop forgets the cap
AutoContinue_NoCap == queue # <<>>

\* auto_uncover, line 91
AutoContinue == queue # <<>> /\ num_uncovered < AUTO_LIMIT

\* auto_uncover, lines 91-104: one iteration of the while loop
AutoStep ==
    /\ pc = "auto"
    /\ Record("AutoStep")
    /\ AutoContinue
    /\ \E draw \in Draws(Head(queue)[1], Head(queue)[2]) :
         uncover(Head(queue)[1], Head(queue)[2], draw)
    /\ IF IsZeroCell(Head(queue), uc'.ret, mines')
       THEN /\ num_uncovered' = num_uncovered + 1
            /\ queue' = Tail(queue) \o Iterate(Head(queue)[1], Head(queue)[2],
                                                ToQueue(Head(queue), uncovered'),
                                                order)
            /\ cache' = cache \cup ToQueue(Head(queue), uncovered')
       ELSE /\ num_uncovered' = num_uncovered
            /\ queue' = Tail(queue)
            /\ cache' = cache
    /\ iters' = iters + 1
    /\ added' = added \cup (uncovered' \ uncovered)
    /\ UNCHANGED <<density, flags, pc, op, prev, ret, nops, order, chordTodo>>

\* auto_uncover, line 106: the while loop is over; control goes back to the
\* for loop of chord, or the public call returns.  The locals are dropped.
AutoReturn ==
    /\ pc = "auto"
    /\ Record("AutoReturn")
    /\ ~AutoContinue
    /\ IF op.name = "chord"
       THEN pc' = "chord" /\ ret' = ret /\ order' = order
       ELSE pc' = "idle" /\ ret' = (num_uncovered > 0) /\ order' = 0
    /\ queue' = <<>>
    /\ cache' = {}
    /\ num_uncovered' = 0
    /\ iters' = 0
    /\ uc' = NoCall
    /\ UNCHANGED <<density, mines, uncovered, flags, detonated_count, op, prev, nops,
                   chordTodo, added>>

Next ==
    \/ \E x \in Xs, y \in Ys : Uncover(x, y)
    \/ \E x \in Xs, y \in Ys : Flag(x, y)
    \/ \E x \in Xs, y \in Ys, auto \in BOOLEAN, o \in Orders : Chord(x, y, auto, o)
    \/ \E x \in Xs, y \in Ys, o \in Orders : AutoUncover(x, y, o)
    \/ ChordUncover
    \/ ChordAuto
    \/ ChordReturn
    \/ AutoStep
    \/ AutoReturn

Spec == Init /\ [][Next]_vars

\* ---------------------------------------------------------------------------
\* Properties
\* ---------------------------------------------------------------------------

\* the number of mines among the 8 neighbours of c, in the mine set m
MineCount(m, c) == Cardinality({n \in adj(c) : n \in m})

\* C1: once a cell is uncovered and not a mine, the number get_tile reports for
\* it (the number of its 8 neighbours in mines) is the same after every step as
\* before it: the cell stays uncovered, stays no mine, and its count does not
\* change.
C1_ResolutionStability ==
    \A c \in before.uncovered :
        c \notin before.mines =>
            /\ c \in uncovered
            /\ c \notin mines
            /\ MineCount(mines, c) = MineCount(before.mines, c)
            /\ get_tile(c[1], c[2])
                 = TileOf(before.mines, before.uncovered, before.flags, c[1], c[2])

\* a numbered cell (count above zero) next to which a later uncover succeeded
C1_Witness ==
    \E c \in uncovered \ mines :
        /\ get_tile(c[1], c[2]) > ZERO
        /\ uc.called /\ uc.ret
        /\ uc.cell \in adj(c)
        /\ mines # {}

\* C2: in every reachable state no coordinate is both in uncovered and in flags.
C2_FlagUncoverExclusive == uncovered \cap flags = {}

\* a flag stands next to uncovered cells and an uncover of the flagged cell
\* was just refused
C2_Witness ==
    /\ uc.called /\ ~uc.ret
    /\ uc.cell \in flags
    /\ adj(uc.cell) \cap uncovered # {}

\* C3: whenever a step adds a coordinate c to mines, then in the state in which
\* it is added c is not uncovered and none of its 8 neighbours is uncovered.
C3_ResolutionOrder ==
    \A c \in mines \ before.mines :
        c \notin before.uncovered /\ adj(c) \cap before.uncovered = {}

\* a step has just added mines next to its target while other cells were
\* uncovered already
C3_Witness ==
    /\ mines \ before.mines # {}
    /\ before.uncovered # {}
    /\ \E c \in mines \ before.mines : c \in adj(uc.cell)

\* C4: the first uncover on a fresh field (mines, uncovered and flags empty)
\* returns true, uncovers its target, and the target is no mine
\* (detonated_count stays 0), whatever the density.
C4_FirstMoveSafety ==
    (/\ before.mines = {} /\ before.uncovered = {} /\ before.flags = {}
     /\ uc.called) =>
        /\ uc.ret
        /\ uc.cell \in uncovered
        /\ uc.cell \notin mines
        /\ detonated_count = 0

\* the first uncover has been made on a field of density 1
C4_Witness ==
    /\ density = DensityScale
    /\ uc.called /\ uc.ret
    /\ uncovered = {uc.cell}
    /\ flags = {}
    /\ detonated_count = 0

\* C5, as stated: the first uncover resolves the 8 neighbours of its target, so
\* at density 1 they are all in mines after the call.
C5_FirstUncoverResolvesNeighbours ==
    (density = DensityScale /\ uc.called /\ uc.ret /\ uncovered = {uc.cell})
        => adj(uc.cell) \subseteq mines

\* C5, amended: the first uncover (uncovered is empty) resolves neither its
\* target nor any neighbour: it adds nothing to mines, which is still empty
\* after the call, at every density.
C5_FirstUncoverResolvesNothing ==
    (before.uncovered = {} /\ uc.called /\ uc.ret) =>
        /\ mines = {}
        /\ uncovered = {uc.cell}
        /\ adj(uc.cell) \cap mines = {}

\* the first public call was uncover, at density 1, and left no mine
C5_Witness ==
    /\ density = DensityScale
    /\ nops = 1 /\ op.name = "uncover" /\ ret
    /\ mines = {}

\* the public calls uncover(a), uncover(b) were the first two, at density 1
FirstTwoUncovers(a, b) ==
    /\ density = DensityScale
    /\ nops = 2 /\ pc = "idle"
    /\ prev = [name |-> "uncover", x |-> a[1], y |-> a[2], auto |-> FALSE]
    /\ op = [name |-> "uncover", x |-> b[1], y |-> b[2], auto |-> FALSE]

\* C6, as stated: at density 1, after uncover(0,0) then uncover(1,0), (0,0) is
\* no mine, (1,0) is a mine, detonated_count is 1 and get_tile(1,0) is DETONATED.
C6_DensityOneScenario ==
    FirstTwoUncovers(<<0, 0>>, <<1, 0>>) =>
        /\ <<0, 0>> \notin mines
        /\ <<1, 0>> \in mines
        /\ detonated_count = 1
        /\ get_tile(1, 0) = DETONATED

\* C6, amended: at density 1, after uncover(0,0) then uncover(1,0), neither
\* cell is a mine, detonated_count is 0 and get_tile(1,0) is THREE, (1,0) being
\* adjacent to the uncovered (0,0); after uncover(0,0) then uncover(2,0), (0,0)
\* is no mine, (2,0) is a mine, detonated_count is 1 and get_tile(2,0) is
\* DETONATED.
C6_DensityOneAmended ==
    /\ FirstTwoUncovers(<<0, 0>>, <<1, 0>>) =>
          /\ <<0, 0>> \notin mines
          /\ <<1, 0>> \notin mines
          /\ detonated_count = 0
          /\ get_tile(1, 0) = THREE
    /\ FirstTwoUncovers(<<0, 0>>, <<2, 0>>) =>
          /\ <<0, 0>> \notin mines
          /\ <<2, 0>> \in mines
          /\ detonated_count = 1
          /\ get_tile(2, 0) = DETONATED

\* uncover(0,0) then uncover(1,0) have been made at density 1
C6_Witness == FirstTwoUncovers(<<0, 0>>, <<1, 0>>) /\ ret

\* the precondition of chord as the contract words it: the cell is uncovered,
\* is no mine, and its flagged neighbours plus its uncovered mine neighbours
\* are as many as its mine neighbours, in the state g
ChordAccounted(g, x, y) ==
    /\ TileOf(g.mines, g.uncovered, g.flags, x, y) \in ZERO .. EIGHT
    /\ Cardinality({n \in adjacent(x, y) : n \in g.flags})
         + Cardinality({n \in adjacent(x, y) : n \in g.uncovered /\ n \in g.mines})
       = MineCount(g.mines, <<x, y>>)

\* C7, as stated: when a chord has returned true, every one of the 8
\* neighbours of its cell is uncovered.
C7_ChordUncoversAllNeighbours ==
    (pc = "idle" /\ op.name = "chord" /\ ret)
        => adjacent(op.x, op.y) \subseteq uncovered

\* C7, amended: chord on an uncovered non-mine cell whose flagged neighbours
\* plus uncovered mine neighbours equal its mine neighbours is carried out and
\* returns true, and afterwards every neighbour that is not flagged is
\* uncovered; the flagged neighbours stay covered.
C7_ChordCorrectness ==
    /\ (act = "Chord" /\ ChordAccounted(before, op.x, op.y)) => pc = "chord"
    /\ act = "ChordReturn" =>
          /\ pc = "idle" /\ op.name = "chord" /\ ret
          /\ (adjacent(op.x, op.y) \ flags) \subseteq uncovered
          /\ adjacent(op.x, op.y) \cap flags \cap uncovered = {}

\* a chord returned true around a cell with a flagged neighbour, and uncovered
\* cells
C7_Witness ==
    /\ pc = "idle" /\ op.name = "chord" /\ ret
    /\ adjacent(op.x, op.y) \cap flags # {}
    /\ added # {}

\* C8: chord on a covered cell, a mine cell, or a cell whose flagged plus
\* uncovered-mine neighbour count differs from its mine neighbour count returns
\* false and changes none of mines, uncovered, flags, detonated_count.
C8_ChordRejection ==
    (act = "Chord" /\ ~ChordAccounted(before, op.x, op.y)) =>
        /\ pc = "idle"
        /\ ~ret
        /\ game = before

\* a chord was refused on an uncovered non-mine cell: its accounting was off
C8_Witness ==
    /\ act = "Chord" /\ pc = "idle" /\ ~ret
    /\ <<op.x, op.y>> \in uncovered \ mines
    /\ MineCount(mines, <<op.x, op.y>>) > 0

\* C9: uncover of a cell that is uncovered or flagged returns false and changes
\* none of mines, uncovered, flags, detonated_count; uncover of any other cell
\* returns true and the cell is uncovered afterwards.
C9_UncoverRejection ==
    uc.called =>
        IF uc.cell \in before.uncovered \/ uc.cell \in before.flags
        THEN ~uc.ret /\ game = before
        ELSE uc.ret /\ uc.cell \in uncovered

\* an uncover of a flagged cell was refused at a positive density while cells
\* were uncovered, so mines would have been generated had it gone on
C9_Witness ==
    /\ uc.called /\ ~uc.ret
    /\ uc.cell \in flags
    /\ uncovered # {}
    /\ density > 0

\* C10: across every step uncovered loses no coordinate, mines loses no
\* coordinate, and detonated_count does not decrease (before is the state the
\* last step started from).
C10_Monotonicity ==
    /\ before.uncovered \subseteq uncovered
    /\ before.mines \subseteq mines
    /\ detonated_count >= before.detonated_count

\* all three have grown: several cells uncovered, several mines, a detonation
C10_Witness ==
    /\ Cardinality(uncovered) >= 2
    /\ Cardinality(mines) >= 2
    /\ detonated_count >= 1

\* C11: in every reachable state detonated_count is the number of coordinates
\* in both mines and uncovered; a successful uncover of a mine raises it by
\* exactly 1, any other step leaves it alone, and no step makes a mine of a
\* cell that was uncovered before it.
C11_DetonationAccounting ==
    /\ detonated_count = Cardinality(mines \cap uncovered)
    /\ detonated_count = before.detonated_count
                           + (IF uc.called /\ uc.ret /\ uc.cell \in mines
                              THEN 1 ELSE 0)
    /\ (mines \ before.mines) \cap before.uncovered = {}

\* a mine generated by an uncover was uncovered by that same call, next to
\* cells uncovered earlier
C11_Witness ==
    /\ uc.called /\ uc.ret
    /\ uc.cell \in mines \ before.mines
    /\ detonated_count = before.detonated_count + 1
    /\ before.uncovered # {}

\* C12: random() is drawn at most once for each coordinate: no step draws for
\* a cell an earlier step drew for, and a cell whose draw left it safe is never
\* in mines afterwards.
C12_ResolvedAtMostOnce ==
    /\ uc.drawn \cap drawn.cells = {}
    /\ drawn.safe \cap mines = {}

\* an uncover drew for cells next to cells that earlier calls drew for and
\* left safe, and made a mine
C12_Witness ==
    /\ uc.drawn # {}
    /\ mines \ before.mines # {}
    /\ \E c \in uc.drawn : adj(c) \cap drawn.safe # {}

\* C13: flag on an uncovered cell returns false and changes nothing; flag on a
\* covered cell returns true and toggles that cell alone in flags; either way
\* mines, uncovered and detonated_count are unchanged, and a second flag call
\* on the same covered cell would give back the flags of before the first.
C13_FlagContract ==
    act = "Flag" =>
        /\ mines = before.mines
        /\ uncovered = before.uncovered
        /\ detonated_count = before.detonated_count
        /\ IF <<op.x, op.y>> \in before.uncovered
           THEN ~ret /\ flags = before.flags
           ELSE /\ ret
                /\ flags \ {<<op.x, op.y>>} = before.flags \ {<<op.x, op.y>>}
                /\ (<<op.x, op.y>> \in flags) = (<<op.x, op.y>> \notin before.flags)
                /\ FlagLegal(op.x, op.y)
                /\ Toggled(op.x, op.y) = before.flags

\* a flag call has just removed a flag while another cell stayed flagged
C13_Witness ==
    /\ act = "Flag" /\ ret
    /\ <<op.x, op.y>> \in before.flags
    /\ <<op.x, op.y>> \notin flags
    /\ flags # {}

\* C17: at density 0 mines is empty and detonated_count is 0 in every reachable
\* state, and get_tile of every uncovered cell is ZERO.
C17_DensityZero ==
    density = 0 =>
        /\ mines = {}
        /\ detonated_count = 0
        /\ \A c \in uncovered : get_tile(c[1], c[2]) = ZERO

\* at density 0 uncover calls have drawn for cells and uncovered several
C17_Witness ==
    /\ density = 0
    /\ drawn.cells # {}
    /\ Cardinality(uncovered) >= 3

\* C14: the while loop of auto_uncover terminates, whatever the density, the
\* seed and the state: every iteration pops one cell, cells are queued only by
\* an iteration that counts a cell, at most 8 at a time, and no more than
\* AUTO_LIMIT cells are counted, so the loop makes at most 1 + 8 * AUTO_LIMIT
\* iterations.
C14_FloodFillTerminates ==
    pc = "auto" =>
        /\ num_uncovered <= AUTO_LIMIT
        /\ iters + Len(queue) <= 1 + 8 * num_uncovered
        /\ iters <= 1 + 8 * AUTO_LIMIT

\* at density 0 the cap has stopped a loop that still had cells queued
C14_Witness ==
    /\ pc = "auto"
    /\ density = 0
    /\ num_uncovered = AUTO_LIMIT
    /\ queue # <<>>
    /\ ~AutoContinue

\* the public call in progress, or the last one made, is auto_uncover(x, y),
\* and seed is its (x, y)
seed == <<op.x, op.y>>

\* C15, as stated: one auto_uncover call adds at most AUTO_LIMIT coordinates
\* to uncovered.
C15_FloodFillCap ==
    op.name = "auto_uncover" => Cardinality(added) <= AUTO_LIMIT

\* C16, as stated: auto_uncover(x, y) returns true exactly when (x, y) was
\* neither uncovered nor flagged when it was called, that is, exactly when the
\* call uncovered (x, y).
C16_AutoUncoverReturnsLegality ==
    (pc = "idle" /\ op.name = "auto_uncover") => (ret <=> seed \in added)

\* C18: every cell a cascade uncovers after its seed is no mine: an iteration
\* of the while loop raises detonated_count only if it is the first of its
\* auto_uncover call, and then by 1; a public auto_uncover call uncovers no
\* mine but possibly its seed, and no flagged cell.
C18_CascadeDetonatesSeedOnly ==
    /\ (act = "AutoStep" /\ iters > 1) =>
          /\ detonated_count = before.detonated_count
          /\ (uc.ret => uc.cell \notin mines)
    /\ act = "AutoStep" =>
          /\ detonated_count <= before.detonated_count + 1
          /\ (uc.ret => uc.cell \notin flags)
    /\ op.name = "auto_uncover" =>
          /\ added \cap mines \subseteq {seed}
          /\ added \cap flags = {}

\* a cascade has gone past its seed and uncovered a cell next to a mine
C18_Witness ==
    /\ act = "AutoStep" /\ iters > 1
    /\ uc.ret
    /\ adj(uc.cell) \cap mines # {}

\* the chord in progress, or the last one made, has no wrong flag around its
\* cell: every flagged neighbour is a mine
FlagsCorrect == adjacent(op.x, op.y) \cap flags \subseteq mines

\* C19: a chord that is carried out while every flagged neighbour of its cell
\* is a mine uncovers no mine, with auto false or true: none of its steps
\* raises detonated_count, and no cell it has uncovered is a mine.
C19_ChordSafeUnderCorrectFlags ==
    (op.name = "chord" /\ act # "Chord" /\ FlagsCorrect) =>
        /\ detonated_count = before.detonated_count
        /\ added \cap mines = {}
        /\ (uc.called /\ uc.ret) => uc.cell \notin mines

\* a chord around a rightly flagged mine has returned after uncovering cells
C19_Witness ==
    /\ act = "ChordReturn"
    /\ FlagsCorrect
    /\ adjacent(op.x, op.y) \cap flags # {}
    /\ added # {}

\* C20: when the while loop of a public auto_uncover call ends because the queue
\* is empty, before AUTO_LIMIT cells were counted, every cell the call has
\* uncovered whose tile is ZERO has its 8 neighbours uncovered or flagged.
C20_CascadeComplete ==
    (/\ pc = "auto" /\ op.name = "auto_uncover"
     /\ queue = <<>> /\ num_uncovered < AUTO_LIMIT) =>
        \A c \in added :
            get_tile(c[1], c[2]) = ZERO => adj(c) \subseteq uncovered \cup flags

\* the queue has run empty after a cascade that uncovered a ZERO cell and more
C20_Witness ==
    /\ pc = "auto" /\ op.name = "auto_uncover"
    /\ queue = <<>> /\ num_uncovered < AUTO_LIMIT
    /\ \E c \in added : get_tile(c[1], c[2]) = ZERO
    /\ Cardinality(added) > 1

====
